---- MODULE Spec2Model ----
(***************************************************************************)
(* AdGuard exporter: the collector loop, the fetchers, the reconciliation  *)
(* into the Prometheus registry and the /metrics scrape, for the two       *)
(* programs of the repository: src/main.go ("main") and                    *)
(* src/unnamed/part_000 ("p0").                                            *)
(*                                                                         *)
(* One step of a goroutine is one HTTP request (a fetcher call) or one     *)
(* registry operation (Set, Reset, WithLabelValues(..).Set, Inc, Observe): *)
(* these are the units the Prometheus client library makes atomic.  Time   *)
(* is not measured: a request may take any duration up to its timeout and  *)
(* the interval may be any duration, so a sleep or a tick may end at any   *)
(* moment.                                                                 *)
(*                                                                         *)
(* A float64 is held in thousandths (Float(250) = 250000), so that the     *)
(* division by 1000 of part_000 is exact.                                  *)
(***************************************************************************)
EXTENDS Integers, Sequences, FiniteSets, TLC

VARIABLES
    prog,     \* the program that runs: "main" or "p0"
    reg,      \* the default Prometheus registry: g gauges, v GaugeVecs, c counters, h histogram
    pc,       \* per goroutine: what it does next
    ops,      \* per goroutine: the registry operations left of the reconciliation in progress
    cyc,      \* per goroutine: its current poll cycle (number, registry at its start, fetch results)
    server,   \* the HTTP listener: "init", "listening" or "exited" (process terminated)
    ended,    \* the goroutine whose call of updateMetrics returned in the last step, if any
    scrape,   \* the /metrics response served by the last step, if that step was a scrape
    env,      \* the value of SCRAPE_INTERVAL in the environment, as its characters
    interval, \* the poll interval the program computed from it, in milliseconds
    appliance, \* the documents the appliance can answer with
    returned  \* the query events the appliance has returned in query-log pages so far

vars == <<prog, reg, pc, ops, cyc, server, ended, scrape, env, interval, appliance, returned>>

\* Number of poll cycles the collector goroutine of main.go may start.
MaxCycles == 2

\* Number of ticks the ticker goroutine of part_000 may serve.
MaxTicks == 1

----------------------------------------------------------------------------
(* Values *)

Float(x) == x * 1000

Div1000(f) == f \div 1000

boolToFloat(b) == IF b THEN Float(1) ELSE Float(0)

EmptyMap == [x \in {} |-> 0]

Put(f, k, x) == [y \in (DOMAIN f) \cup {k} |-> IF y = k THEN x ELSE f[y]]

Get(f, k) == IF k \in DOMAIN f THEN f[k] ELSE 0

RECURSIVE Sum(_)
Sum(s) == IF s = <<>> THEN 0 ELSE Head(s) + Sum(Tail(s))

----------------------------------------------------------------------------
(* The appliance's answers *)

Sources == {"stats", "status", "querylog"}

StatsDocs == {"S1", "S2", "S3"}

StatusDocs == {"T1", "T2", "T3"}

QueryLogDocs == {"Q1", "Q2"}

Malformed == "malformed"

\* JSON values, by their JSON type.
JNum(x) == [t |-> "number", v |-> x]

JBool(b) == [t |-> "bool", v |-> b]

JStr(x) == [t |-> "string", v |-> x]

JArr(a) == [t |-> "array", v |-> a]

JObj(o) == [t |-> "object", v |-> o]

\* The JSON body of /control/stats.  S1 and S2 carry the fields of both schema
\* versions; S3 is {"dns_queries": 100, "top_clients": [{"10.0.0.5": 42}]}.
StatsJSON(id) ==
    CASE id = "S1" ->
        [num_dns_queries |-> JNum(100), num_blocked_filtering |-> JNum(10),
         num_replaced_parental |-> JNum(1), avg_processing_time |-> JNum(250),
         top_queried_domains |-> JArr(<< <<"a", 5>>, <<"b", 3>> >>),
         top_blocked_domains |-> JArr(<< <<"a", 1>> >>),
         top_clients |-> JArr(<< <<"10.0.0.5", 42>> >>),
         top_upstreams_responses |-> JArr(<<>>),
         top_upstreams_avg_time |-> JArr(<< <<"u1", 250>> >>),
         dns_queries |-> JArr(<<40, 60>>), blocked_filtering |-> JArr(<<10>>),
         replaced_safebrowsing |-> JArr(<<>>), replaced_safesearch |-> JArr(<<2>>)]
      [] id = "S2" ->
        [num_dns_queries |-> JNum(120), num_blocked_filtering |-> JNum(10),
         num_replaced_parental |-> JNum(0), avg_processing_time |-> JNum(30),
         top_queried_domains |-> JArr(<< <<"b", 7>>, <<"c", 2>> >>),
         top_blocked_domains |-> JArr(<<>>),
         top_clients |-> JArr(<<>>),
         top_upstreams_responses |-> JArr(<< <<"u1", 11>> >>),
         top_upstreams_avg_time |-> JArr(<<>>),
         dns_queries |-> JArr(<<120>>), blocked_filtering |-> JArr(<<4, 6>>),
         replaced_safebrowsing |-> JArr(<<1>>), replaced_safesearch |-> JArr(<<>>)]
      [] OTHER ->
        [dns_queries |-> JNum(100),
         top_clients |-> JArr(<< <<"10.0.0.5", 42>> >>)]

\* The JSON body of /control/status.  T3 is
\* {"running": true, "protection_enabled": true, "dhcp": {"enabled": false, "leases": []}}.
StatusJSON(id) ==
    CASE id = "T1" ->
        [version |-> JStr("v0.107.1"), protection_disabled_duration |-> JNum(0),
         protection_enabled |-> JBool(TRUE), dhcp_available |-> JBool(FALSE),
         running |-> JBool(TRUE),
         dns |-> JObj([avg_processing_time |-> JNum(250)]),
         dhcp |-> JObj([enabled |-> JBool(FALSE), leases |-> JArr(<<>>)])]
      [] id = "T2" ->
        [version |-> JStr("v0.107.2"), protection_disabled_duration |-> JNum(60),
         protection_enabled |-> JBool(FALSE), dhcp_available |-> JBool(TRUE),
         running |-> JBool(TRUE),
         dns |-> JObj([avg_processing_time |-> JNum(120)]),
         dhcp |-> JObj([enabled |-> JBool(TRUE), leases |-> JArr(<<"lease1", "lease2">>)])]
      [] OTHER ->
        [running |-> JBool(TRUE), protection_enabled |-> JBool(TRUE),
         dhcp |-> JObj([enabled |-> JBool(FALSE), leases |-> JArr(<<>>)])]

\* encoding/json: a struct field takes the value of the JSON member of its name when
\* the member has the field's type, and keeps its zero value when there is none.
Field(j, n, t, zero) == IF n \in DOMAIN j /\ j[n].t = t THEN j[n].v ELSE zero

\* encoding/json: a member of another JSON type than its field is an UnmarshalTypeError.
TypeError(j, fields) == \E f \in fields : f[1] \in DOMAIN j /\ j[f[1]].t # f[2]

TopLists ==
    {<<"top_queried_domains", "array">>, <<"top_blocked_domains", "array">>,
     <<"top_clients", "array">>, <<"top_upstreams_responses", "array">>,
     <<"top_upstreams_avg_time", "array">>}

\* main.go: the members AdGuardStats and AdGuardStatus are decoded from.
AdGuardStats ==
    {<<"num_dns_queries", "number">>, <<"num_blocked_filtering", "number">>,
     <<"num_replaced_parental", "number">>, <<"avg_processing_time", "number">>}
        \cup TopLists

AdGuardStatus ==
    {<<"version", "string">>, <<"language", "string">>, <<"dns_addresses", "array">>,
     <<"dns_port", "number">>, <<"http_port", "number">>,
     <<"protection_disabled_duration", "number">>, <<"protection_enabled", "bool">>,
     <<"dhcp_available", "bool">>, <<"running", "bool">>}

\* part_000: the members AdGuardStats and AdGuardStatus are decoded from.
AdGuardStats_p0 ==
    {<<"time_units", "string">>, <<"dns_queries", "array">>,
     <<"blocked_filtering", "array">>, <<"replaced_safebrowsing", "array">>,
     <<"replaced_safesearch", "array">>} \cup TopLists

AdGuardStatus_p0 ==
    {<<"running", "bool">>, <<"protection_enabled", "bool">>, <<"dns", "object">>,
     <<"dhcp", "object">>}

\* The decoded /control/stats document, by the fields either program reads.
StatsDoc(id) ==
    LET j == StatsJSON(id) IN
    [num_dns_queries |-> Field(j, "num_dns_queries", "number", 0),
     num_blocked_filtering |-> Field(j, "num_blocked_filtering", "number", 0),
     num_replaced_parental |-> Field(j, "num_replaced_parental", "number", 0),
     avg_processing_time |-> Field(j, "avg_processing_time", "number", 0),
     top_queried_domains |-> Field(j, "top_queried_domains", "array", <<>>),
     top_blocked_domains |-> Field(j, "top_blocked_domains", "array", <<>>),
     top_clients |-> Field(j, "top_clients", "array", <<>>),
     top_upstreams_responses |-> Field(j, "top_upstreams_responses", "array", <<>>),
     top_upstreams_avg_time |-> Field(j, "top_upstreams_avg_time", "array", <<>>),
     dns_queries |-> Field(j, "dns_queries", "array", <<>>),
     blocked_filtering |-> Field(j, "blocked_filtering", "array", <<>>),
     replaced_safebrowsing |-> Field(j, "replaced_safebrowsing", "array", <<>>),
     replaced_safesearch |-> Field(j, "replaced_safesearch", "array", <<>>)]

\* The decoded /control/status document, by the fields either program reads.
StatusDoc(id) ==
    LET j == StatusJSON(id)
        dns == Field(j, "dns", "object", EmptyMap)
        dhcp == Field(j, "dhcp", "object", EmptyMap)
    IN
    [version |-> Field(j, "version", "string", ""),
     protection_disabled_duration |-> Field(j, "protection_disabled_duration", "number", 0),
     protection_enabled |-> Field(j, "protection_enabled", "bool", FALSE),
     dhcp_available |-> Field(j, "dhcp_available", "bool", FALSE),
     running |-> Field(j, "running", "bool", FALSE),
     dns_avg_processing_time |-> Field(dns, "avg_processing_time", "number", 0),
     dhcp_enabled |-> Field(dhcp, "enabled", "bool", FALSE),
     dhcp_leases |-> Field(dhcp, "leases", "array", <<>>)]

\* The query events of the appliance; elapsedMs is a string, held as its characters.
Event(e) ==
    IF e = "e1" THEN
        [type |-> "A", name |-> "a", reason |-> "NotFilteredNotFound",
         client |-> "10.0.0.5", elapsedMs |-> <<"1", "2">>, upstream |-> "u1"]
    ELSE
        [type |-> "AAAA", name |-> "b", reason |-> "FilteredBlackList",
         client |-> "10.0.0.6", elapsedMs |-> <<>>, upstream |-> ""]

\* The JSON document of /control/querylog: a page of recent events.
QueryLogDoc(id) == IF id = "Q1" THEN <<"e1">> ELSE <<"e1", "e2">>

\* The documents of the usual appliance, and of the end-to-end scenario.
Documents == {"S1", "S2", "T1", "T2", "Q1", "Q2"}

Scenario == {"S3", "T3", "Q1"}

\* The bodies the appliance can answer a request of source s with.
DocsOf(s) ==
    CASE s = "stats" -> StatsDocs \cap appliance
      [] s = "status" -> StatusDocs \cap appliance
      [] s = "querylog" -> QueryLogDocs \cap appliance

TransportError == [transport |-> TRUE, status |-> 0, body |-> Malformed]

\* What one GET can come back with: no response at all, or a status and a body.
Responses(s) ==
    {TransportError}
        \cup [transport : {FALSE}, status : {200, 401}, body : DocsOf(s) \cup {Malformed}]

FailureKind(r) ==
    IF r.transport THEN "transport"
    ELSE IF r.status # 200 THEN "non2xx"
    ELSE IF r.body = Malformed THEN "malformed"
    ELSE "ok"

----------------------------------------------------------------------------
(* The fetchers: what a call returns for a response *)

Ok(id) == [err |-> FALSE, val |-> id]

Err == [err |-> TRUE, val |-> "-"]

\* main.go: client.Do, io.ReadAll, json.Unmarshal; the status code is not looked at.
fetchStats(r) ==
    IF r.transport \/ r.body = Malformed THEN Err
    ELSE IF TypeError(StatsJSON(r.body), AdGuardStats) THEN Err
    ELSE Ok(r.body)

fetchStatus(r) ==
    IF r.transport \/ r.body = Malformed THEN Err
    ELSE IF TypeError(StatusJSON(r.body), AdGuardStatus) THEN Err
    ELSE Ok(r.body)

fetchQueryLog(r) == IF r.transport \/ r.body = Malformed THEN Err ELSE Ok(r.body)

\* part_000: client.Do, then the status code, then the JSON decoder.
fetchAdGuardData_p0(r) ==
    IF r.transport THEN Err
    ELSE IF r.status # 200 THEN Err
    ELSE IF r.body = Malformed THEN Err
    ELSE IF r.body \in StatusDocs /\ TypeError(StatusJSON(r.body), AdGuardStatus_p0) THEN Err
    ELSE IF r.body \in StatsDocs /\ TypeError(StatsJSON(r.body), AdGuardStats_p0) THEN Err
    ELSE Ok(r.body)

----------------------------------------------------------------------------
(* The registry *)

Gauges(p) ==
    IF p = "main" THEN
        {"dnsQueries", "blockedFiltering", "replacedParental", "avgProcessingTime",
         "statusProtectionEnabled", "statusRunning", "statusDHCPAvailable",
         "statusDisabledDuration"}
    ELSE
        {"protectionEnabled", "adguardRunning", "queries24h", "blockedFiltered",
         "blockedSafesearch", "blockedSafebrowsing", "avgProcessingTime",
         "dhcpEnabled", "dhcpLeases"}

\* The label-based top-N gauge families of a program.
TopFamilies(p) ==
    IF p = "main" THEN
        {"topQueriedDomains", "topBlockedDomains", "topClients", "topUpstreams",
         "topUpstreamTime"}
    ELSE
        {"topQueriedDomains", "topBlockedDomains", "topClients", "topUpstreams",
         "topUpstreamsResponseTime"}

GaugeVecs(p) == IF p = "main" THEN TopFamilies(p) \cup {"versionInfo"} ELSE TopFamilies(p)

Counters(p) ==
    IF p = "main" THEN
        {"queryCountByReason", "queryCountByType", "queryCountByUpstream",
         "queryCountByDomain", "queryCountClientReason"}
    ELSE {"scrapeErrors"}

\* After prometheus.MustRegister: gauges and the plain counter at 0, vectors without series.
Registry(p) ==
    [g |-> [m \in Gauges(p) |-> 0],
     v |-> [m \in GaugeVecs(p) |-> EmptyMap],
     c |-> [m \in Counters(p) |-> IF m = "scrapeErrors" THEN (<<>> :> 0) ELSE EmptyMap],
     h |-> EmptyMap]

Set(m, x) == [op |-> "Set", m |-> m, l |-> <<>>, val |-> x]

Reset(m) == [op |-> "Reset", m |-> m, l |-> <<>>, val |-> 0]

WithLabelValuesSet(m, l, x) == [op |-> "SetL", m |-> m, l |-> l, val |-> x]

Inc(m, l) == [op |-> "Inc", m |-> m, l |-> l, val |-> 1]

Observe(m, l, x) == [op |-> "Observe", m |-> m, l |-> l, val |-> x]

\* One registry operation, atomic under the library's locks.
Apply(r, o) ==
    CASE o.op = "Set" -> [r EXCEPT !.g[o.m] = o.val]
      [] o.op = "Reset" ->
            IF o.m \in DOMAIN r.v THEN [r EXCEPT !.v[o.m] = EmptyMap]
            ELSE [r EXCEPT !.c[o.m] = EmptyMap]
      [] o.op = "SetL" -> [r EXCEPT !.v[o.m] = Put(@, o.l, o.val)]
      [] o.op = "Inc" -> [r EXCEPT !.c[o.m] = Put(@, o.l, Get(@, o.l) + 1)]
      [] o.op = "Observe" ->
            [r EXCEPT !.h = Put(@, o.l,
                IF o.l \in DOMAIN @
                THEN [count |-> @[o.l].count + 1, sum |-> @[o.l].sum + o.val]
                ELSE [count |-> 1, sum |-> o.val])]

----------------------------------------------------------------------------
(* Reconciliation: the registry operations a decoded payload leads to, in order *)

\* for _, m := range list { for k, v := range m { vec.WithLabelValues(k).Set(v) } }
RangeSet(m, list) ==
    [i \in 1..Len(list) |-> WithLabelValuesSet(m, <<list[i][1]>>, Float(list[i][2]))]

\* A stats reconciliation that also clears the version-info family.
StatsOpsResettingVersion(d) ==
    << Set("dnsQueries", Float(d.num_dns_queries)),
       Set("blockedFiltering", Float(d.num_blocked_filtering)),
       Set("replacedParental", Float(d.num_replaced_parental)),
       Set("avgProcessingTime", Float(d.avg_processing_time)) >>
    \o <<Reset("topQueriedDomains")>> \o RangeSet("topQueriedDomains", d.top_queried_domains)
    \o <<Reset("topBlockedDomains")>> \o RangeSet("topBlockedDomains", d.top_blocked_domains)
    \o <<Reset("topClients")>> \o RangeSet("topClients", d.top_clients)
    \o <<Reset("topUpstreams")>> \o RangeSet("topUpstreams", d.top_upstreams_responses)
    \o <<Reset("topUpstreamTime")>> \o RangeSet("topUpstreamTime", d.top_upstreams_avg_time)
    \o <<Reset("versionInfo")>>

StatsOps(d) ==
    << Set("dnsQueries", Float(d.num_dns_queries)),
       Set("blockedFiltering", Float(d.num_blocked_filtering)),
       Set("replacedParental", Float(d.num_replaced_parental)),
       Set("avgProcessingTime", Float(d.avg_processing_time)) >>
    \o <<Reset("topQueriedDomains")>> \o RangeSet("topQueriedDomains", d.top_queried_domains)
    \o <<Reset("topBlockedDomains")>> \o RangeSet("topBlockedDomains", d.top_blocked_domains)
    \o <<Reset("topClients")>> \o RangeSet("topClients", d.top_clients)
    \o <<Reset("topUpstreams")>> \o RangeSet("topUpstreams", d.top_upstreams_responses)
    \o <<Reset("topUpstreamTime")>> \o RangeSet("topUpstreamTime", d.top_upstreams_avg_time)

\* A status reconciliation that sets the version series without clearing the family.
StatusOpsMerging(d) ==
    << Set("statusProtectionEnabled", boolToFloat(d.protection_enabled)),
       Set("statusRunning", boolToFloat(d.running)),
       Set("statusDHCPAvailable", boolToFloat(d.dhcp_available)),
       Set("statusDisabledDuration", Float(d.protection_disabled_duration)),
       WithLabelValuesSet("versionInfo", <<d.version>>, Float(1)) >>

StatusOps(d) ==
    << Set("statusProtectionEnabled", boolToFloat(d.protection_enabled)),
       Set("statusRunning", boolToFloat(d.running)),
       Set("statusDHCPAvailable", boolToFloat(d.dhcp_available)),
       Set("statusDisabledDuration", Float(d.protection_disabled_duration)),
       Reset("versionInfo"),
       WithLabelValuesSet("versionInfo", <<d.version>>, Float(1)) >>

Digits == <<"0", "1", "2", "3", "4", "5", "6", "7", "8", "9">>

DigitValue(ch) == (CHOOSE i \in 1..10 : Digits[i] = ch) - 1

RECURSIVE Decimal(_)
Decimal(s) == IF s = <<>> THEN 0 ELSE 10 * Decimal(SubSeq(s, 1, Len(s) - 1)) + DigitValue(s[Len(s)])

\* strconv.ParseFloat on a string of characters: an error unless it is a number.
ParseFloat(s) ==
    IF s # <<>> /\ \A i \in 1..Len(s) : \E j \in 1..10 : Digits[j] = s[i]
    THEN [err |-> FALSE, val |-> Float(Decimal(s))]
    ELSE [err |-> TRUE, val |-> 0]

\* An entry's operations when the error of strconv.ParseFloat is not looked at.
EntryOpsUnchecked(q) ==
    << Inc("queryCountByReason", <<q.reason>>),
       Inc("queryCountByType", <<q.type>>),
       Observe("queryHistogramByClient", <<q.client>>, ParseFloat(q.elapsedMs).val),
       Inc("queryCountByUpstream", <<q.upstream>>),
       Inc("queryCountByDomain", <<q.name>>),
       Inc("queryCountClientReason", <<q.client, q.reason>>) >>

EntryOps(q) ==
    << Inc("queryCountByReason", <<q.reason>>),
       Inc("queryCountByType", <<q.type>>) >>
    \o (IF ParseFloat(q.elapsedMs).err THEN <<>>
        ELSE <<Observe("queryHistogramByClient", <<q.client>>, ParseFloat(q.elapsedMs).val)>>)
    \o << Inc("queryCountByUpstream", <<q.upstream>>),
          Inc("queryCountByDomain", <<q.name>>),
          Inc("queryCountClientReason", <<q.client, q.reason>>) >>

\* for _, q := range logData.Data { ... }
RECURSIVE RangeData(_)
RangeData(data) ==
    IF data = <<>> THEN <<>> ELSE EntryOps(Event(Head(data))) \o RangeData(Tail(data))

\* A reconciliation that clears the counter families first, as is done for the gauge vectors.
QueryLogOpsResetting(data) ==
    << Reset("queryCountByReason"), Reset("queryCountByType"), Reset("queryCountByUpstream"),
       Reset("queryCountByDomain"), Reset("queryCountClientReason") >> \o RangeData(data)

QueryLogOps(data) == RangeData(data)

ResetOps_p0 ==
    << Reset("topQueriedDomains"), Reset("topBlockedDomains"), Reset("topClients"),
       Reset("topUpstreams"), Reset("topUpstreamsResponseTime") >>

ErrorOps_p0 == <<Inc("scrapeErrors", <<>>)>>

StatusOps_p0(d) ==
    << Set("protectionEnabled", boolToFloat(d.protection_enabled)),
       Set("adguardRunning", boolToFloat(d.running)),
       Set("avgProcessingTime", Div1000(Float(d.dns_avg_processing_time))),
       Set("dhcpEnabled", boolToFloat(d.dhcp_enabled)),
       Set("dhcpLeases", Float(Len(d.dhcp_leases))) >>

StatsOps_p0(d) ==
    << Set("queries24h", Float(Sum(d.dns_queries))),
       Set("blockedFiltered", Float(Sum(d.blocked_filtering))),
       Set("blockedSafesearch", Float(Sum(d.replaced_safesearch))),
       Set("blockedSafebrowsing", Float(Sum(d.replaced_safebrowsing))) >>
    \o RangeSet("topQueriedDomains", d.top_queried_domains)
    \o RangeSet("topBlockedDomains", d.top_blocked_domains)
    \o RangeSet("topClients", d.top_clients)
    \o RangeSet("topUpstreams", d.top_upstreams_responses)
    \o RangeSet("topUpstreamsResponseTime", d.top_upstreams_avg_time)

----------------------------------------------------------------------------
(* Goroutines *)

\* main.go: the collector goroutine.  part_000: the main goroutine's startup
\* poll and the ticker goroutine.
Procs == {"collector", "startup", "ticker"}

NoResult == [n |-> 0, kind |-> "none", err |-> FALSE, val |-> "-"]

NoCycle(r) == [n |-> 0, before |-> r, res |-> [s \in Sources |-> NoResult]]

\* A call of updateMetrics starts: the cycle's record is opened.
NewCycle(p) == [cyc EXCEPT ![p] = [n |-> @.n + 1, before |-> reg, res |-> [s \in Sources |-> NoResult]]]

\* The request of source s got response r and the fetcher returned out.
Requested(p, s, r, out) ==
    [cyc EXCEPT ![p].res[s] =
        [n |-> @.n + 1, kind |-> FailureKind(r), err |-> out.err, val |-> out.val]]

NoScrape == [fam |-> "-", series |-> EmptyMap]

Alive == server \in {"init", "listening"}

(* The poll interval *)

\* SCRAPE_INTERVAL is not set.
Unset == <<>>

\* The values of SCRAPE_INTERVAL: unset, "30", "30s", "abc", "0", "-5s".
Envs ==
    {Unset, <<"3", "0">>, <<"3", "0", "s">>, <<"a", "b", "c">>, <<"0">>, <<"-", "5", "s">>}

\* time.Millisecond is the unit durations are held in; time.Second in it.
Second == 1000

IsDigits(s) == s # <<>> /\ \A i \in 1..Len(s) : \E j \in 1..10 : Digits[j] = s[i]

Signed(s) == s # <<>> /\ s[1] \in {"+", "-"}

Unsigned(s) == IF Signed(s) THEN Tail(s) ELSE s

Sign(s) == IF Signed(s) /\ s[1] = "-" THEN -1 ELSE 1

\* strconv.Atoi: an optional sign and decimal digits, anything else is an error.
Atoi(s) ==
    IF IsDigits(Unsigned(s)) THEN [err |-> FALSE, val |-> Sign(s) * Decimal(Unsigned(s))]
    ELSE [err |-> TRUE, val |-> 0]

\* The digits a string starts with, and what follows them.
Leading(s) ==
    CHOOSE n \in 0..Len(s) :
        /\ \A i \in 1..n : \E j \in 1..10 : Digits[j] = s[i]
        /\ n < Len(s) => ~\E j \in 1..10 : Digits[j] = s[n + 1]

\* The units of time.ParseDuration that are a whole number of milliseconds.
UnitOf(u) ==
    CASE u = <<"m", "s">> -> 1
      [] u = <<"s">> -> Second
      [] u = <<"m">> -> 60 * Second
      [] u = <<"h">> -> 3600 * Second
      [] OTHER -> 0

\* time.ParseDuration of a string with one number and one unit: [-+]?([0-9]+[a-z]+),
\* "0" alone is the zero duration, a missing or unknown unit is an error.
ParseDuration(s) ==
    LET u == Unsigned(s)
        n == Leading(u)
        unit == SubSeq(u, n + 1, Len(u))
    IN  IF u = <<"0">> THEN [err |-> FALSE, val |-> 0]
        ELSE IF n = 0 \/ UnitOf(unit) = 0 THEN [err |-> TRUE, val |-> 0]
        ELSE [err |-> FALSE, val |-> Sign(s) * Decimal(SubSeq(u, 1, n)) * UnitOf(unit)]

\* main.go: strconv.Atoi, and 15 when it fails or the number is below 1.
Interval_main(e) ==
    LET a == Atoi(e) IN
    [err |-> FALSE, val |-> (IF a.err \/ a.val < 1 THEN 15 ELSE a.val) * Second]

\* part_000: "15s" when the variable is empty, then time.ParseDuration.
Interval_p0(e) == ParseDuration(IF e = <<>> THEN <<"1", "5", "s">> ELSE e)

Interval(pr, e) == IF pr = "main" THEN Interval_main(e) ELSE Interval_p0(e)

\* How far startup gets: log.Fatalf in part_000's init when the interval does not
\* parse, a panic of time.NewTicker in part_000's main when it is not positive.
Startup(pr, e) ==
    IF pr = "p0" /\ Interval(pr, e).err THEN "fatal"
    ELSE IF pr = "p0" /\ Interval(pr, e).val <= 0 THEN "panic"
    ELSE "init"

\* The state when program pr has started with SCRAPE_INTERVAL = e against an
\* appliance that answers with docs.
Boot(pr, e, docs) ==
    /\ prog = pr
    /\ env = e
    /\ interval = Interval(pr, e).val
    /\ appliance = docs
    /\ returned = {}
    /\ reg = Registry(pr)
    /\ pc = [p \in Procs |->
                IF pr = "main"
                THEN (IF p = "collector" THEN "fetchStats" ELSE "off")
                ELSE (IF p = "startup" THEN "call" ELSE IF p = "ticker" THEN "wait" ELSE "off")]
    /\ ops = [p \in Procs |-> <<>>]
    /\ cyc = [p \in Procs |->
                IF pr = "main" /\ p = "collector"
                THEN [NoCycle(Registry(pr)) EXCEPT !.n = 1]
                ELSE NoCycle(Registry(pr))]
    /\ server = Startup(pr, e)
    /\ ended = "-"
    /\ scrape = NoScrape

Programs == {"main", "p0"}

Init == \E pr \in Programs : Boot(pr, Unset, Documents)

\* A goroutine performs the next registry operation of its reconciliation.
registryOp(p) ==
    /\ Alive
    /\ ops[p] # <<>>
    /\ reg' = Apply(reg, Head(ops[p]))
    /\ ops' = [ops EXCEPT ![p] = Tail(@)]
    /\ ended' = IF Tail(ops[p]) = <<>> /\ pc[p] \in {"sleep", "return"} THEN p ELSE "-"
    /\ scrape' = NoScrape
    /\ UNCHANGED <<prog, env, interval, appliance, returned, pc, cyc, server>>

(* src/main.go *)

updateMetrics_fetchStats ==
    /\ Alive /\ prog = "main"
    /\ pc["collector"] = "fetchStats" /\ ops["collector"] = <<>>
    /\ \E r \in Responses("stats") :
          LET out == fetchStats(r) IN
          /\ ops' = [ops EXCEPT !["collector"] =
                        IF out.err THEN <<>> ELSE StatsOps(StatsDoc(out.val))]
          /\ cyc' = Requested("collector", "stats", r, out)
    /\ pc' = [pc EXCEPT !["collector"] = "fetchStatus"]
    /\ ended' = "-"
    /\ scrape' = NoScrape
    /\ UNCHANGED <<prog, env, interval, appliance, returned, reg, server>>

updateMetrics_fetchStatus ==
    /\ Alive /\ prog = "main"
    /\ pc["collector"] = "fetchStatus" /\ ops["collector"] = <<>>
    /\ \E r \in Responses("status") :
          LET out == fetchStatus(r) IN
          /\ ops' = [ops EXCEPT !["collector"] =
                        IF out.err THEN <<>> ELSE StatusOps(StatusDoc(out.val))]
          /\ cyc' = Requested("collector", "status", r, out)
    /\ pc' = [pc EXCEPT !["collector"] = "updateQueryLogMetrics"]
    /\ ended' = "-"
    /\ scrape' = NoScrape
    /\ UNCHANGED <<prog, env, interval, appliance, returned, reg, server>>

updateQueryLogMetrics ==
    /\ Alive /\ prog = "main"
    /\ pc["collector"] = "updateQueryLogMetrics" /\ ops["collector"] = <<>>
    /\ \E r \in Responses("querylog") :
          LET out == fetchQueryLog(r) IN
          /\ ops' = [ops EXCEPT !["collector"] =
                        IF out.err THEN <<>> ELSE QueryLogOps(QueryLogDoc(out.val))]
          /\ cyc' = Requested("collector", "querylog", r, out)
          /\ ended' = IF out.err THEN "collector" ELSE "-"
          /\ returned' = IF out.err THEN returned
                         ELSE returned \cup {QueryLogDoc(out.val)[i] :
                                                i \in 1..Len(QueryLogDoc(out.val))}
    /\ pc' = [pc EXCEPT !["collector"] = "sleep"]
    /\ scrape' = NoScrape
    /\ UNCHANGED <<prog, env, interval, appliance, reg, server>>

\* time.Sleep returns and the loop calls updateMetrics again.
collectorLoop ==
    /\ Alive /\ prog = "main"
    /\ pc["collector"] = "sleep" /\ ops["collector"] = <<>>
    /\ cyc["collector"].n < MaxCycles
    /\ pc' = [pc EXCEPT !["collector"] = "fetchStats"]
    /\ cyc' = NewCycle("collector")
    /\ ended' = "-"
    /\ scrape' = NoScrape
    /\ UNCHANGED <<prog, env, interval, appliance, returned, reg, ops, server>>

\* http.ListenAndServe binds the port and serves, or fails and the process exits.
ListenAndServe ==
    /\ prog = "main"
    /\ server = "init"
    /\ server' \in {"listening", "exited"}
    /\ ended' = "-"
    /\ scrape' = NoScrape
    /\ UNCHANGED <<prog, env, interval, appliance, returned, reg, pc, ops, cyc>>

(* src/unnamed/part_000 *)

\* updateMetrics is entered: the five Reset calls are ahead.
updateMetrics_p0(p) ==
    /\ ops' = [ops EXCEPT ![p] = ResetOps_p0]
    /\ pc' = [pc EXCEPT ![p] = "fetchStatus"]
    /\ cyc' = NewCycle(p)
    /\ ended' = "-"
    /\ scrape' = NoScrape
    /\ UNCHANGED <<prog, env, interval, appliance, returned, reg, server>>

\* main calls updateMetrics() itself, once, before it serves.
main_p0 ==
    /\ Alive /\ prog = "p0"
    /\ pc["startup"] = "call"
    /\ updateMetrics_p0("startup")

\* for range ticker.C { updateMetrics() }
ticker_p0 ==
    /\ Alive /\ prog = "p0"
    /\ pc["ticker"] \in {"wait", "return"} /\ ops["ticker"] = <<>>
    /\ cyc["ticker"].n < MaxTicks
    /\ updateMetrics_p0("ticker")

updateMetrics_p0_fetchStatus(p) ==
    /\ Alive /\ prog = "p0"
    /\ pc[p] = "fetchStatus" /\ ops[p] = <<>>
    /\ \E r \in Responses("status") :
          LET out == fetchAdGuardData_p0(r) IN
          /\ ops' = [ops EXCEPT ![p] =
                        IF out.err THEN ErrorOps_p0 ELSE StatusOps_p0(StatusDoc(out.val))]
          /\ pc' = [pc EXCEPT ![p] = IF out.err THEN "return" ELSE "fetchStats"]
          /\ cyc' = Requested(p, "status", r, out)
    /\ ended' = "-"
    /\ scrape' = NoScrape
    /\ UNCHANGED <<prog, env, interval, appliance, returned, reg, server>>

updateMetrics_p0_fetchStats(p) ==
    /\ Alive /\ prog = "p0"
    /\ pc[p] = "fetchStats" /\ ops[p] = <<>>
    /\ \E r \in Responses("stats") :
          LET out == fetchAdGuardData_p0(r) IN
          /\ ops' = [ops EXCEPT ![p] =
                        IF out.err THEN ErrorOps_p0 ELSE StatsOps_p0(StatsDoc(out.val))]
          /\ cyc' = Requested(p, "stats", r, out)
    /\ pc' = [pc EXCEPT ![p] = "return"]
    /\ ended' = "-"
    /\ scrape' = NoScrape
    /\ UNCHANGED <<prog, env, interval, appliance, returned, reg, server>>

\* After its own updateMetrics() returned, main registers the handler and listens.
ListenAndServe_p0 ==
    /\ prog = "p0"
    /\ server = "init"
    /\ pc["startup"] = "return" /\ ops["startup"] = <<>>
    /\ server' \in {"listening", "exited"}
    /\ ended' = "-"
    /\ scrape' = NoScrape
    /\ UNCHANGED <<prog, env, interval, appliance, returned, reg, pc, ops, cyc>>

(* both programs *)

\* promhttp.Handler serves GET /metrics: a gauge vector is collected under its lock.
Scrape ==
    /\ server = "listening"
    /\ \E f \in GaugeVecs(prog) : scrape' = [fam |-> f, series |-> reg.v[f]]
    /\ ended' = "-"
    /\ UNCHANGED <<prog, env, interval, appliance, returned, reg, pc, ops, cyc, server>>

StepMain ==
    \/ registryOp("collector")
    \/ updateMetrics_fetchStats
    \/ updateMetrics_fetchStatus
    \/ updateQueryLogMetrics
    \/ collectorLoop
    \/ ListenAndServe

StepP0Polls ==
    \/ \E p \in {"startup", "ticker"} : registryOp(p)
    \/ main_p0
    \/ \E p \in {"startup", "ticker"} : updateMetrics_p0_fetchStatus(p)
    \/ \E p \in {"startup", "ticker"} : updateMetrics_p0_fetchStats(p)
    \/ ListenAndServe_p0

StepP0 == StepP0Polls \/ ticker_p0

Next == StepMain \/ StepP0 \/ Scrape

Spec == Init /\ [][Next]_vars

\* src/main.go alone.
NextMain == StepMain \/ Scrape

InitMain == Init /\ prog = "main"

SpecMain == InitMain /\ [][NextMain]_vars

\* src/unnamed/part_000 alone.
NextP0 == StepP0 \/ Scrape

InitP0 == Init /\ prog = "p0"

SpecP0 == InitP0 /\ [][NextP0]_vars

\* part_000 with an interval longer than the startup poll: the first tick arrives
\* after main's own updateMetrics() has returned.
ticker_p0_late ==
    /\ pc["startup"] = "return" /\ ops["startup"] = <<>>
    /\ ticker_p0

NextP0Late == StepP0Polls \/ ticker_p0_late \/ Scrape

SpecP0Late == InitP0 /\ [][NextP0Late]_vars

\* Either program started with any value of SCRAPE_INTERVAL, its goroutines
\* scheduled fairly and every request answered or timed out.
InitEnv == \E pr \in Programs : \E e \in Envs : Boot(pr, e, Documents)

Collector ==
    \/ registryOp("collector")
    \/ updateMetrics_fetchStats
    \/ updateMetrics_fetchStatus
    \/ updateQueryLogMetrics
    \/ collectorLoop

Startup_p0 ==
    \/ registryOp("startup")
    \/ main_p0
    \/ updateMetrics_p0_fetchStatus("startup")
    \/ updateMetrics_p0_fetchStats("startup")

Ticker_p0 ==
    \/ registryOp("ticker")
    \/ ticker_p0
    \/ updateMetrics_p0_fetchStatus("ticker")
    \/ updateMetrics_p0_fetchStats("ticker")

Fairness ==
    /\ WF_vars(Collector)
    /\ WF_vars(ListenAndServe)
    /\ WF_vars(Startup_p0)
    /\ WF_vars(Ticker_p0)
    /\ WF_vars(ListenAndServe_p0)

NextEnv == StepMain \/ StepP0

SpecEnv == InitEnv /\ [][NextEnv]_vars /\ Fairness

\* Either program against the appliance of the end-to-end scenario.
InitScenario == \E pr \in Programs : Boot(pr, Unset, Scenario)

SpecScenario == InitScenario /\ [][Next]_vars

----------------------------------------------------------------------------
(* What the claims speak of *)

\* Goroutine p has called updateMetrics and its last call has returned.
Returned(p) == cyc[p].n > 0 /\ pc[p] \in {"sleep", "return"} /\ ops[p] = <<>>

\* Goroutine p is inside a call of updateMetrics.
InUpdateMetrics(p) == cyc[p].n > 0 /\ ~Returned(p)

\* The end of a poll cycle: p's call of updateMetrics has just returned.
CycleEnded(p) == ended = p

\* The fetch of source s in p's cycle failed: transport error, non-2xx status or decode error.
Failed(p, s) == cyc[p].res[s].kind \in {"transport", "non2xx", "malformed"}

\* The fetcher of source s returned a payload in p's cycle.
Succeeded(p, s) == cyc[p].res[s].kind # "none" /\ ~cyc[p].res[s].err

SourceGauges(s) ==
    IF prog = "main" THEN
        CASE s = "stats" -> {"dnsQueries", "blockedFiltering", "replacedParental",
                             "avgProcessingTime"}
          [] s = "status" -> {"statusProtectionEnabled", "statusRunning",
                              "statusDHCPAvailable", "statusDisabledDuration"}
          [] OTHER -> {}
    ELSE
        CASE s = "stats" -> {"queries24h", "blockedFiltered", "blockedSafesearch",
                             "blockedSafebrowsing"}
          [] s = "status" -> {"protectionEnabled", "adguardRunning", "avgProcessingTime",
                              "dhcpEnabled", "dhcpLeases"}
          [] OTHER -> {}

SourceVecs(s) ==
    CASE s = "stats" -> TopFamilies(prog)
      [] s = "status" -> GaugeVecs(prog) \ TopFamilies(prog)
      [] OTHER -> {}

\* The series of registry r that are derived from source s.
Published(r, s) ==
    [g |-> [m \in SourceGauges(s) |-> r.g[m]],
     v |-> [m \in SourceVecs(s) |-> r.v[m]],
     c |-> IF s = "querylog" THEN [m \in DOMAIN r.c \ {"scrapeErrors"} |-> r.c[m]] ELSE EmptyMap,
     h |-> IF s = "querylog" THEN r.h ELSE EmptyMap]

\* The sources the program derives series from (part_000 has none from the query log).
Sourced == IF prog = "main" THEN Sources ELSE {"stats", "status"}

\* The list of a stats document that a top-N family is filled from.
TopList(d, f) ==
    CASE f = "topQueriedDomains" -> d.top_queried_domains
      [] f = "topBlockedDomains" -> d.top_blocked_domains
      [] f = "topClients" -> d.top_clients
      [] f = "topUpstreams" -> d.top_upstreams_responses
      [] OTHER -> d.top_upstreams_avg_time

\* The labels and values a list of single-entry mappings states.
Series(list) ==
    [l \in {<<list[i][1]>> : i \in 1..Len(list)} |->
        Float(list[CHOOSE i \in 1..Len(list) :
                    /\ <<list[i][1]>> = l
                    /\ \A j \in (i + 1)..Len(list) : <<list[j][1]>> # l][2])]

RECURSIVE ApplyAll(_, _)
ApplyAll(r, os) == IF os = <<>> THEN r ELSE ApplyAll(Apply(r, Head(os)), Tail(os))

\* The operations the reconciliation of source s makes for document id.
SourceOps(s, id) ==
    IF prog = "main" THEN
        CASE s = "stats" -> StatsOps(StatsDoc(id))
          [] s = "status" -> StatusOps(StatusDoc(id))
          [] OTHER -> QueryLogOps(QueryLogDoc(id))
    ELSE
        CASE s = "stats" -> StatsOps_p0(StatsDoc(id))
          [] s = "status" -> StatusOps_p0(StatusDoc(id))
          [] OTHER -> <<>>

\* The value of the error counter in registry r (main.go registers none).
ErrorCount(r) == IF "scrapeErrors" \in DOMAIN r.c THEN r.c["scrapeErrors"][<<>>] ELSE 0

Scraped == scrape # NoScrape

----------------------------------------------------------------------------
(* Claims *)

\* C1: after a poll cycle whose stats fetch succeeded, every top-N gauge family holds
\* exactly the labels and values of that cycle's stats payload.
C1_TopFamiliesAreThePayload ==
    \A p \in Procs :
        CycleEnded(p) /\ Succeeded(p, "stats") =>
            \A f \in TopFamilies(prog) :
                reg.v[f] = Series(TopList(StatsDoc(cyc[p].res["stats"].val), f))

\* C2: at the end of a poll cycle, the series of every source whose fetch failed in it
\* are what they were when the cycle started.
C2_FailedSourceKeepsItsSeries ==
    \A p \in Procs : \A s \in Sources :
        CycleEnded(p) /\ Failed(p, s) =>
            Published(reg, s) = Published(cyc[p].before, s)

\* C3: when a source failed in a poll cycle, every other source was fetched and its
\* series hold, at the end of the cycle, the new payload if its own fetch succeeded
\* and their previous values if it failed.
C3_OtherSourcesUnaffected ==
    \A p \in Procs : \A s \in Sources : \A t \in Sourced \ {s} :
        CycleEnded(p) /\ Failed(p, s) =>
            /\ cyc[p].res[t].kind # "none"
            /\ Failed(p, t) => Published(reg, t) = Published(cyc[p].before, t)
            /\ ~Failed(p, t) /\ Succeeded(p, t) =>
                  Published(reg, t) =
                      Published(ApplyAll(cyc[p].before, SourceOps(t, cyc[p].res[t].val)), t)

\* C4: no counter series is ever removed and none ever decreases.
C4_CountersNeverDecrease ==
    [][\A m \in DOMAIN reg.c : \A l \in DOMAIN reg.c[m] :
          /\ l \in DOMAIN reg'.c[m]
          /\ reg'.c[m][l] >= reg.c[m][l]]_vars

\* C4 (reached): counters that survived a cycle with a failed fetch and counted twice.
C4_Witness ==
    /\ \E p \in Procs : CycleEnded(p) /\ \E s \in Sources : Failed(p, s)
    /\ \E m \in DOMAIN reg.c : \E l \in DOMAIN reg.c[m] : reg.c[m][l] >= 2

\* C5: a scrape of a top-N gauge family sees the complete series of the previous
\* successful payload or the complete series of the new one.
C5_ScrapeSeesACompleteFamily ==
    Scraped /\ scrape.fam \in TopFamilies(prog) =>
        \E p \in Procs :
            /\ cyc[p].n > 0
            /\ \/ scrape.series = cyc[p].before.v[scrape.fam]
               \/ /\ Succeeded(p, "stats")
                  /\ scrape.series =
                        Series(TopList(StatsDoc(cyc[p].res["stats"].val), scrape.fam))

\* C6: no two executions of updateMetrics overlap.
C6_NoOverlap ==
    \A p \in Procs : \A q \in Procs \ {p} : ~(InUpdateMetrics(p) /\ InUpdateMetrics(q))

\* C7: a scrape is answered only after a first poll cycle has completed.
C7_FirstPollBeforeFirstScrape ==
    Scraped => \E p \in Procs : cyc[p].n > 1 \/ Returned(p)

\* C8: in every poll cycle each of the three endpoints is requested exactly once.
C8_EachEndpointOncePerCycle ==
    \A p \in Procs : CycleEnded(p) => \A s \in Sources : cyc[p].res[s].n = 1

\* C9: a non-2xx response is a fetch failure whatever its body: the fetcher returns an
\* error and the series of that source are not touched in that cycle.
C9_Non2xxIsAFailure ==
    \A p \in Procs : \A s \in Sources :
        cyc[p].res[s].kind = "non2xx" =>
            /\ cyc[p].res[s].err
            /\ CycleEnded(p) => Published(reg, s) = Published(cyc[p].before, s)

\* C10: at the end of a poll cycle in which an endpoint returned a malformed JSON body,
\* the error counter is greater than at the start of the cycle, and /metrics can be
\* served when the listener is up.
C10_MalformedBodyIsCounted ==
    \A p \in Procs :
        CycleEnded(p) /\ (\E s \in Sources : cyc[p].res[s].kind = "malformed") =>
            /\ ErrorCount(reg) > ErrorCount(cyc[p].before)
            /\ server = "listening" => ENABLED Scrape

\* The process has terminated for another reason than a failure to bind the listen port.
TerminatedOtherwise == server \in {"fatal", "panic"}

\* C11: after every poll cycle, whatever its fetches returned, a next poll cycle
\* eventually starts unless the process has terminated, and the process terminates
\* only on a failure to bind the listen port.
C11_NextCycleAlwaysStarts ==
    /\ [](~TerminatedOtherwise)
    /\ \A k \in 1..(MaxCycles - 1) :
          (cyc["collector"].n = k /\ Returned("collector"))
              ~> (cyc["collector"].n > k \/ ~Alive)
    /\ Returned("startup") ~> (cyc["ticker"].n > 0 \/ ~Alive)

\* The exposed value x (in thousandths) is the upstream value of ms milliseconds in seconds.
InSeconds(x, ms) == x * 1000 = Float(ms)

\* The family part_000 and main.go expose the per-upstream average response time in.
UpstreamTimeFamily == IF prog = "main" THEN "topUpstreamTime" ELSE "topUpstreamsResponseTime"

\* The milliseconds of the elapsed times of a page's entries of client cl that are numbers.
RECURSIVE ElapsedMs(_, _)
ElapsedMs(page, cl) ==
    IF page = <<>> THEN 0
    ELSE LET q == Event(Head(page)) IN
         (IF <<q.client>> = cl /\ ~ParseFloat(q.elapsedMs).err THEN Decimal(q.elapsedMs) ELSE 0)
             + ElapsedMs(Tail(page), cl)

\* The sum of the observations of client cl in registry r.
Observed(r, cl) == IF cl \in DOMAIN r.h THEN r.h[cl].sum ELSE 0

\* The number of observations of client cl in registry r.
Observations(r, cl) == IF cl \in DOMAIN r.h THEN r.h[cl].count ELSE 0

\* C12: at the end of a poll cycle every millisecond-valued field of a payload the
\* cycle fetched is exposed in seconds: the average processing time, each upstream's
\* average response time, and the elapsed time of the query-log entries.
C12_MillisecondsExposedInSeconds ==
    \A p \in Procs : CycleEnded(p) =>
        /\ Succeeded(p, IF prog = "main" THEN "stats" ELSE "status") =>
              InSeconds(reg.g["avgProcessingTime"],
                        IF prog = "main"
                        THEN StatsDoc(cyc[p].res["stats"].val).avg_processing_time
                        ELSE StatusDoc(cyc[p].res["status"].val).dns_avg_processing_time)
        /\ Succeeded(p, "stats") =>
              LET list == StatsDoc(cyc[p].res["stats"].val).top_upstreams_avg_time IN
              \A i \in 1..Len(list) :
                  /\ <<list[i][1]>> \in DOMAIN reg.v[UpstreamTimeFamily]
                  /\ InSeconds(reg.v[UpstreamTimeFamily][<<list[i][1]>>], list[i][2])
        /\ Succeeded(p, "querylog") =>
              LET page == QueryLogDoc(cyc[p].res["querylog"].val) IN
              \A cl \in DOMAIN reg.h :
                  InSeconds(Observed(reg, cl) - Observed(cyc[p].before, cl),
                            ElapsedMs(page, cl))

\* The gauge of each boolean flag of the status payload, with the flag's field.
FlagGauges ==
    IF prog = "main" THEN
        {<<"statusProtectionEnabled", "protection_enabled">>, <<"statusRunning", "running">>,
         <<"statusDHCPAvailable", "dhcp_available">>}
    ELSE
        {<<"protectionEnabled", "protection_enabled">>, <<"adguardRunning", "running">>,
         <<"dhcpEnabled", "dhcp_enabled">>}

\* The gauges the end-to-end scenario names, by program; "-" where a program has none.
ScenarioGauge(what) ==
    IF prog = "main" THEN
        CASE what = "running" -> "statusRunning"
          [] what = "protection" -> "statusProtectionEnabled"
          [] what = "dhcp" -> "statusDHCPAvailable"
          [] what = "queries" -> "dnsQueries"
          [] OTHER -> "-"
    ELSE
        CASE what = "running" -> "adguardRunning"
          [] what = "protection" -> "protectionEnabled"
          [] what = "dhcp" -> "dhcpEnabled"
          [] what = "leases" -> "dhcpLeases"
          [] OTHER -> "queries24h"

\* C13: from an empty registry, a poll cycle that is answered with the status and the
\* stats payload of the end-to-end scenario ends with running = 1, protection
\* enabled = 1, DHCP flag = 0, DHCP lease count = 0, total queries = 100 and the
\* top-clients family holding exactly the series 10.0.0.5 = 42.
C13_EndToEndScenario ==
    \A p \in Procs :
        /\ CycleEnded(p)
        /\ appliance = Scenario
        /\ cyc[p].before = Registry(prog)
        /\ cyc[p].res["status"].kind = "ok"
        /\ cyc[p].res["stats"].kind = "ok"
        => /\ \A what \in {"running", "protection", "dhcp", "leases", "queries"} :
                  ScenarioGauge(what) \in DOMAIN reg.g
           /\ reg.g[ScenarioGauge("running")] = Float(1)
           /\ reg.g[ScenarioGauge("protection")] = Float(1)
           /\ reg.g[ScenarioGauge("dhcp")] = Float(0)
           /\ reg.g[ScenarioGauge("leases")] = Float(0)
           /\ reg.g[ScenarioGauge("queries")] = Float(100)
           /\ reg.v["topClients"] = (<<"10.0.0.5">> :> Float(42))

\* C14: boolToFloat is exactly 1 for true and 0 for false, and at the end of a poll
\* cycle whose status fetch succeeded each boolean-flag gauge is 1 if the flag of that
\* payload is true and 0 if it is false.
C14_FlagsAreOneOrZero ==
    /\ boolToFloat(TRUE) = Float(1)
    /\ boolToFloat(FALSE) = Float(0)
    /\ \A p \in Procs :
          CycleEnded(p) /\ Succeeded(p, "status") =>
              \A f \in FlagGauges :
                  reg.g[f[1]] =
                      (IF StatusDoc(cyc[p].res["status"].val)[f[2]] THEN Float(1) ELSE Float(0))

\* The default poll interval: 15 seconds.
DefaultInterval == 15 * Second

\* A number of seconds that is at least 1, or a positive duration.
WellFormed(e) ==
    \/ ~Atoi(e).err /\ Atoi(e).val >= 1
    \/ ~ParseDuration(e).err /\ ParseDuration(e).val > 0

\* C15: with a SCRAPE_INTERVAL that is not a well-formed interval (unparsable, zero
\* or negative) the process starts and polls with the default interval of 15 seconds.
C15_MalformedIntervalFallsBack ==
    env # Unset /\ ~WellFormed(env) =>
        /\ ~TerminatedOtherwise
        /\ interval = DefaultInterval

\* C16: a SCRAPE_INTERVAL of a number followed by 's', such as '30s', sets the poll
\* interval to that number of seconds.
C16_SecondsSuffixIsHonoured ==
    LET n == Len(env) - 1 IN
    n >= 1 /\ env[n + 1] = "s" /\ IsDigits(SubSeq(env, 1, n)) /\ Decimal(SubSeq(env, 1, n)) > 0 =>
        /\ ~TerminatedOtherwise
        /\ interval = Decimal(SubSeq(env, 1, n)) * Second

\* The label values of counter m for query event q.
LabelOf(m, q) ==
    CASE m = "queryCountByReason" -> <<q.reason>>
      [] m = "queryCountByType" -> <<q.type>>
      [] m = "queryCountByUpstream" -> <<q.upstream>>
      [] m = "queryCountByDomain" -> <<q.name>>
      [] OTHER -> <<q.client, q.reason>>

QueryLogCounters == Counters("main")

\* The number of entries of a page that carry label l of counter m.
Entries(page, m, l) == Cardinality({i \in 1..Len(page) : LabelOf(m, Event(page[i])) = l})

\* The labels of counter m in registry r or on a page.
Labels(r, page, m) ==
    DOMAIN r.c[m] \cup {LabelOf(m, Event(page[i])) : i \in 1..Len(page)}

\* C17: at the end of every poll cycle of main.go each query-log counter equals, for
\* each label, the number of distinct query events with that label the appliance has
\* returned so far.
C17_CountersCountDistinctEvents ==
    CycleEnded("collector") =>
        \A m \in QueryLogCounters :
            \A l \in DOMAIN reg.c[m] \cup {LabelOf(m, Event(e)) : e \in returned} :
                Get(reg.c[m], l) = Cardinality({e \in returned : LabelOf(m, Event(e)) = l})

\* What a poll cycle of main.go did to the counters: each went up by the number of
\* entries of the fetched page with its label, or nothing changed when the fetch failed.
CountersFollowThePage ==
    IF Succeeded("collector", "querylog") THEN
        LET page == QueryLogDoc(cyc["collector"].res["querylog"].val) IN
        \A m \in QueryLogCounters : \A l \in Labels(reg, page, m) :
            Get(reg.c[m], l) = Get(cyc["collector"].before.c[m], l) + Entries(page, m, l)
    ELSE reg.c = cyc["collector"].before.c /\ reg.h = cyc["collector"].before.h

\* The clients of a registry's histogram or of a page.
Clients(r, page) == DOMAIN r.h \cup {<<Event(page[i]).client>> : i \in 1..Len(page)}

\* C18 (as stated): at the end of a poll cycle of main.go whose query-log fetch
\* succeeded, each of the five counters has gone up by 1 per entry of the page for that
\* entry's labels and the histogram holds one more observation per entry for the
\* entry's client, whatever its elapsed-time field contains; after a failed fetch no
\* counter and no observation has changed.
C18_OneObservationPerEntry ==
    CycleEnded("collector") =>
        /\ CountersFollowThePage
        /\ Succeeded("collector", "querylog") =>
              LET page == QueryLogDoc(cyc["collector"].res["querylog"].val) IN
              \A cl \in Clients(reg, page) :
                  Observations(reg, cl) =
                      Observations(cyc["collector"].before, cl)
                          + Cardinality({i \in 1..Len(page) : <<Event(page[i]).client>> = cl})

\* C18 (amended): as stated, but an entry is observed only when its elapsed-time field
\* is a number; an entry whose field does not parse adds no observation.
C18_OneObservationPerParsedEntry ==
    CycleEnded("collector") =>
        /\ CountersFollowThePage
        /\ Succeeded("collector", "querylog") =>
              LET page == QueryLogDoc(cyc["collector"].res["querylog"].val) IN
              \A cl \in Clients(reg, page) :
                  Observations(reg, cl) =
                      Observations(cyc["collector"].before, cl)
                          + Cardinality({i \in 1..Len(page) :
                                            /\ <<Event(page[i]).client>> = cl
                                            /\ ~ParseFloat(Event(page[i]).elapsedMs).err})

\* C18 (reached): a second cycle ended that fetched the page with an entry whose
\* elapsed-time field is empty, on top of counters of the first cycle.
C18_Witness ==
    /\ CycleEnded("collector")
    /\ cyc["collector"].n = 2
    /\ Succeeded("collector", "querylog")
    /\ cyc["collector"].res["querylog"].val = "Q2"
    /\ cyc["collector"].before.c["queryCountByType"] # EmptyMap
    /\ <<"10.0.0.6">> \notin DOMAIN reg.h

\* The source whose payload goroutine p is reconciling, "-" when it is at none.
Reconciling(p) ==
    IF ops[p] = <<>> THEN "-"
    ELSE IF prog = "main" THEN
        CASE pc[p] = "fetchStatus" -> "stats"
          [] pc[p] = "updateQueryLogMetrics" -> "status"
          [] pc[p] = "sleep" -> "querylog"
          [] OTHER -> "-"
    ELSE
        CASE pc[p] = "fetchStats" -> "status"
          [] pc[p] = "return" /\ Succeeded(p, "stats") -> "stats"
          [] OTHER -> "-"

\* C19: a registry operation of the reconciliation of one source leaves the series
\* derived from every other source unchanged.
C19_ReconciliationIsFramed ==
    [][\A p \in Procs : \A s \in Sources :
          Reconciling(p) = s /\ ops'[p] = Tail(ops[p]) =>
              \A t \in Sources \ {s} : Published(reg', t) = Published(reg, t)]_vars

\* C19 (reached): a cycle of main.go ended in which all three sources were reconciled
\* and each changed its own series.
C19_Witness ==
    /\ CycleEnded("collector")
    /\ \A s \in Sources :
          /\ Succeeded("collector", s)
          /\ Published(reg, s) # Published(cyc["collector"].before, s)

\* The status reconciliation of the collector's current cycle has completed.
StatusReconciled ==
    /\ Succeeded("collector", "status")
    /\ \/ pc["collector"] = "updateQueryLogMetrics" /\ ops["collector"] = <<>>
       \/ pc["collector"] = "sleep"

\* C20: once a status reconciliation of main.go has completed, the version-info family
\* holds exactly one series, labelled with the version of that status and valued 1, so
\* no series of an earlier version remains.
C20_OneVersionSeries ==
    StatusReconciled =>
        reg.v["versionInfo"] =
            (<<StatusDoc(cyc["collector"].res["status"].val).version>> :> Float(1))

\* C20 (reached): the second cycle reconciled a status of another version than the
\* one the family held at its start.
C20_Witness ==
    /\ StatusReconciled
    /\ cyc["collector"].n = 2
    /\ DOMAIN cyc["collector"].before.v["versionInfo"] = {<<"v0.107.1">>}
    /\ StatusDoc(cyc["collector"].res["status"].val).version = "v0.107.2"

====
